---- MODULE Spec2Model ----
(***************************************************************************)
(* FileWriter::try_from_file (src/io/ipc/append/mod.rs): resuming an       *)
(* Arrow IPC file writer on an existing file.  The function is modelled    *)
(* statement by statement; the stream it is given is modelled by its       *)
(* cursor and by the log of the operations issued on it.                   *)
(*                                                                         *)
(* Integer widths are scaled: i64/u64 are W64 bits wide and i32 (and a     *)
(* 32-bit usize) W32 bits wide, so that TLC's integers can hold every      *)
(* intermediate value while the relation between the widths that makes the *)
(* u64 addition overflow (two i64 maxima plus a small i32) is kept.        *)
(***************************************************************************)
EXTENDS Integers, Sequences, FiniteSets

\* ---------------------------------------------------------------- bounds

\* Scaled width, in bits, of i64 and u64.
W64 == 20
\* Scaled width, in bits, of i32 and of usize on a 32-bit target.
W32 == 10
\* Longest record-block list of the metadata.
MaxBlocks == 2
\* Longest dictionary-block list of the metadata.
MaxDictBlocks == 2

RECURSIVE Pow2(_)
Pow2(n) == IF n = 0 THEN 1 ELSE 2 * Pow2(n - 1)

I64Max == Pow2(W64 - 1) - 1
I32Max == Pow2(W32 - 1) - 1
U64Mod == Pow2(W64)

\* ------------------------------------------------------------ input data

\* Record blocks {offset: i64, meta_data_length: i32, body_length: i64}.
Block(o, m, b) == [offset |-> o, meta_data_length |-> m, body_length |-> b]

BlockSet ==
    { Block(100, 20, 380),          \* the well-formed example: ends at 500
      Block(-5, 20, 380),           \* negative offset
      Block(100, -1, 380),          \* negative meta_data_length
      Block(100, 20, -1),           \* negative body_length
      Block(I64Max, I32Max, I64Max),\* the three maxima: the sum exceeds u64
      Block(I64Max, 0, I64Max) }    \* fits u64, exceeds a 32-bit usize

RECURSIVE SeqsUpTo(_, _)
SeqsUpTo(S, n) ==
    IF n = 0 THEN { <<>> }
    ELSE LET shorter == SeqsUpTo(S, n - 1)
         IN  shorter \cup { Append(s, x) : s \in shorter, x \in S }

\* The dictionary messages of the file, by their blocks.
DictBlock1 == Block(8, 4, 12)
DictBlock2 == Block(24, 4, 20)
DictBlockSet == { DictBlock1, DictBlock2 }

Schemas == { "schemaA", "schemaB" }
Cursors == { 0, 7 }

\* FileMetadata: Option is a sequence of length 0 (None) or 1 (Some).
MetadataSet ==
    [ schema : Schemas,
      ipc_fields : { "ipc_fields" },
      is_little_endian : BOOLEAN,
      blocks : SeqsUpTo(BlockSet, MaxBlocks),
      dictionaries : { <<>> } \cup { <<d>> : d \in SeqsUpTo(DictBlockSet, MaxDictBlocks) } ]

\* ---------------------------------------------------------------- state

VARIABLES
    metadata,        \* the FileMetadata argument
    options,         \* the WriteOptions argument
    native_le,       \* is_native_little_endian() of the platform
    overflow_checks, \* the build panics on integer overflow (debug) or wraps
    usize_bits,      \* width of usize on the target
    start,           \* where the stream stood when the call began
    cursor,          \* position of the stream `writer`
    ops,             \* operations issued on the stream so far
    pc,              \* position in try_from_file
    dictionaries,    \* local `dictionaries`
    conv,            \* locals offset, meta_data_length, body_length (as u64)
    offset,          \* local `offset` after line 61
    result,          \* what the call returned
    writer,          \* the FileWriter returned: <<>> or <<w>>
    tracker,         \* the live dictionary tracker of the returned writer
    insert_res,      \* outcome of the insert made on the tracker after resuming
    run,             \* 1: first call, 2: second call on a fresh handle
    first            \* result and writer of the first call, once a second began

vars == << metadata, options, native_le, overflow_checks, usize_bits, start, cursor,
           ops, pc,
           dictionaries, conv, offset, result, writer, tracker, insert_res,
           run, first >>

\* What no step of the call changes.
platform == << native_le, overflow_checks, usize_bits, start >>

\* ------------------------------------------------------------- results

NoResult == [kind |-> "none", error |-> "", msg |-> ""]
OkResult == [kind |-> "ok", error |-> "", msg |-> ""]
Err(e, m) == [kind |-> "err", error |-> e, msg |-> m]
Panic(m) == [kind |-> "panic", error |-> "", msg |-> m]

NoConv == [offset |-> 0, meta_data_length |-> 0, body_length |-> 0]
NoInsert == [kind |-> "none", id |-> 0, values |-> ""]

StreamOp(name, pos) == [op |-> name, pos |-> pos]

Init ==
    /\ metadata \in MetadataSet
    /\ options \in { "options" }
    /\ native_le \in BOOLEAN
    /\ overflow_checks \in BOOLEAN
    /\ usize_bits \in { W32, W64 }
    /\ start \in Cursors
    /\ cursor = start
    /\ ops = <<>>
    /\ pc = "check_endianess"
    /\ dictionaries = <<>>
    /\ conv = NoConv
    /\ offset = 0
    /\ result = NoResult
    /\ writer = <<>>
    /\ tracker = <<>>
    /\ insert_res = NoInsert
    /\ run = 1
    /\ first = [result |-> NoResult, writer |-> <<>>, start |-> start]

\* ------------------------------------------------ lines 29-33: endianess

\* Mutant: the platform is taken to be little endian.
EndianessMatches_LittleOnly(md, native) == md.is_little_endian

EndianessMatches(md, native) == md.is_little_endian = native

CheckEndianess ==
    /\ pc = "check_endianess"
    /\ IF EndianessMatches(metadata, native_le)
       THEN /\ pc' = "read_dictionaries"
            /\ UNCHANGED result
       ELSE /\ pc' = "done"
            /\ result' = Err("NotYetImplemented",
                   "Appending to a file of a non-native endianess is still not supported")
    /\ UNCHANGED << metadata, options, platform, cursor, ops, dictionaries, conv,
                    offset, writer, tracker, insert_res, run, first >>

\* --------------------------------------------- lines 35-44: dictionaries

\* The dictionary message stored at a dictionary block: its id and values.
DictionaryAt(b) ==
    IF b = DictBlock1 THEN [id |-> 7, values |-> "a"]
                      ELSE [id |-> 9, values |-> "b"]

Put(t, k, v) == [x \in DOMAIN t \cup {k} |-> IF x = k THEN v ELSE t[x]]

\* read::reader::read_dictionaries: the id -> values table of the blocks,
\* each read at its own offset.
RECURSIVE ReadDictionaries(_)
ReadDictionaries(blocks) ==
    IF blocks = <<>> THEN <<>>
    ELSE LET d == DictionaryAt(blocks[Len(blocks)])
         IN  Put(ReadDictionaries(SubSeq(blocks, 1, Len(blocks) - 1)), d.id, d.values)

BlockEnd(b) == b.offset + b.meta_data_length + b.body_length

\* The stream operations of the loader on the first n blocks: each message
\* is read at its block's offset.
DictReads(blocks, n) == [i \in 1..n |-> StreamOp("read_dictionary", blocks[i].offset)]

\* Where the loader leaves the stream: behind the last message it read, or
\* at the message whose read failed.
CursorAfterRead(cur, blocks, failed) ==
    IF failed > 0 THEN blocks[failed].offset
    ELSE IF blocks = <<>> THEN cur
    ELSE BlockEnd(blocks[Len(blocks)])

\* How read_dictionaries(..)? can end: 0 when every message was read, k when
\* the read of the k-th message failed.
ReadOutcomes(blocks) == 0..Len(blocks)

LoadDictionaries ==
    /\ pc = "read_dictionaries"
    /\ IF Len(metadata.dictionaries) = 1
       THEN \E failed \in ReadOutcomes(metadata.dictionaries[1]) :
              /\ cursor' = CursorAfterRead(cursor, metadata.dictionaries[1], failed)
              /\ IF failed = 0
                 THEN /\ ops' = ops \o DictReads(metadata.dictionaries[1],
                                                 Len(metadata.dictionaries[1]))
                      /\ dictionaries' = ReadDictionaries(metadata.dictionaries[1])
                      /\ pc' = "last_block"
                      /\ UNCHANGED result
                 ELSE /\ ops' = ops \o DictReads(metadata.dictionaries[1], failed)
                      /\ result' = Err("Io", "read_dictionaries")
                      /\ pc' = "done"
                      /\ UNCHANGED dictionaries
       ELSE /\ dictionaries' = <<>>
            /\ pc' = "last_block"
            /\ UNCHANGED << ops, cursor, result >>
    /\ UNCHANGED << metadata, options, platform, conv, offset, writer, tracker,
                    insert_res, run, first >>

\* ------------------------------------------------ lines 46-60: last block

\* Mutant: an empty list yields a default block instead of None.
Last_OrDefault(blocks) ==
    IF Len(blocks) = 0 THEN << Block(0, 0, 0) >> ELSE << blocks[Len(blocks)] >>

\* slice::last: None for the empty list.
Last(blocks) == IF Len(blocks) = 0 THEN <<>> ELSE << blocks[Len(blocks)] >>

\* Mutant: a silent `as u64` cast, which wraps a negative value.
TryIntoU64_Cast(x) == << x % U64Mod >>

\* Mutant: zero is refused too ("must be a positive number").
TryIntoU64_Positive(x) == IF x <= 0 THEN <<>> ELSE << x >>

\* i64 (i32) -> u64 try_into: None for a negative value.
TryIntoU64(x) == IF x < 0 THEN <<>> ELSE << x >>

LastBlock ==
    /\ pc = "last_block"
    /\ LET last == Last(metadata.blocks) IN
       IF Len(last) = 0
       THEN /\ result' = Err("OutOfSpec",
                   "An Arrow IPC file must have at least 1 message (the schema message)")
            /\ pc' = "done"
            /\ UNCHANGED conv
       ELSE LET o == TryIntoU64(last[1].offset)
                m == TryIntoU64(last[1].meta_data_length)
                b == TryIntoU64(last[1].body_length)
            IN  IF Len(o) = 0
                THEN /\ result' = Err("OutOfSpec",
                            "The block's offset must be a positive number")
                     /\ pc' = "done"
                     /\ UNCHANGED conv
                ELSE IF Len(m) = 0
                THEN /\ result' = Err("OutOfSpec",
                            "The block's meta length must be a positive number")
                     /\ pc' = "done"
                     /\ UNCHANGED conv
                ELSE IF Len(b) = 0
                THEN /\ result' = Err("OutOfSpec",
                            "The block's body length must be a positive number")
                     /\ pc' = "done"
                     /\ UNCHANGED conv
                ELSE /\ conv' = [offset |-> o[1], meta_data_length |-> m[1],
                                 body_length |-> b[1]]
                     /\ pc' = "add"
                     /\ UNCHANGED result
    /\ UNCHANGED << metadata, options, platform, cursor, ops, dictionaries, offset,
                    writer, tracker, insert_res, run, first >>

\* ------------------------------------------------------ line 61: the sum

\* u64 `+`: the wrapped value, and whether the true sum left u64.
AddU64(a, b) == [value |-> (a + b) % U64Mod, overflow |-> a + b >= U64Mod]

ComputeOffset ==
    /\ pc = "add"
    /\ LET s1 == AddU64(conv.offset, conv.meta_data_length)
           s2 == AddU64(s1.value, conv.body_length)
       IN  IF (s1.overflow \/ s2.overflow) /\ overflow_checks
           THEN /\ result' = Panic("attempt to add with overflow")
                /\ pc' = "done"
                /\ UNCHANGED offset
           ELSE /\ offset' = s2.value
                /\ pc' = "seek"
                /\ UNCHANGED result
    /\ UNCHANGED << metadata, options, platform, cursor, ops, dictionaries, conv,
                    writer, tracker, insert_res, run, first >>

\* ----------------------------------------------------- line 63: the seek

\* SeekFrom::Start(n): the position the stream is moved to.
SeekFromStart(cur, n) == n

\* Mutant: the stream is rewound before it is moved to the offset.
Seek_Rewind ==
    /\ pc = "seek"
    /\ \E io_ok \in BOOLEAN :
         /\ ops' = ops \o << StreamOp("seek", 0), StreamOp("seek", offset) >>
         /\ IF io_ok
            THEN /\ cursor' = offset
                 /\ pc' = "construct"
                 /\ UNCHANGED result
            ELSE /\ result' = Err("Io", "seek")
                 /\ pc' = "done"
                 /\ UNCHANGED cursor
    /\ UNCHANGED << metadata, options, platform, dictionaries, conv, offset, writer,
                    tracker, insert_res, run, first >>

Seek ==
    /\ pc = "seek"
    /\ \E io_ok \in BOOLEAN :
         /\ ops' = Append(ops, StreamOp("seek", SeekFromStart(cursor, offset)))
         /\ IF io_ok
            THEN /\ cursor' = SeekFromStart(cursor, offset)
                 /\ pc' = "construct"
                 /\ UNCHANGED result
            ELSE /\ result' = Err("Io", "seek")
                 /\ pc' = "done"
                 /\ UNCHANGED cursor
    /\ UNCHANGED << metadata, options, platform, dictionaries, conv, offset, writer,
                    tracker, insert_res, run, first >>

\* ---------------------------------------------- lines 65-78: the writer

\* `offset as usize`: truncation to the target's pointer width.
AsUsize(x) == x % Pow2(usize_bits)

\* Option::unwrap_or_default on the dictionary blocks.
UnwrapOrDefault(opt) == IF Len(opt) = 0 THEN <<>> ELSE opt[1]

\* Mutant: the tracker of a fresh writer, which allows replacement.
DictionaryTracker_CanReplace(dicts) == [dictionaries |-> dicts, cannot_replace |-> FALSE]

DictionaryTracker(dicts) == [dictionaries |-> dicts, cannot_replace |-> TRUE]

\* Mutant: the fields FileWriter::new gives a writer of a new file.
FileWriter_New(md, opts, off, dicts) ==
    [ options |-> opts,
      schema |-> md.schema,
      ipc_fields |-> md.ipc_fields,
      block_offsets |-> AsUsize(off),
      dictionary_blocks |-> <<>>,
      record_blocks |-> <<>>,
      state |-> "None",
      dictionary_tracker |-> DictionaryTracker(dicts) ]

FileWriter(md, opts, off, dicts) ==
    [ options |-> opts,
      schema |-> md.schema,
      ipc_fields |-> md.ipc_fields,
      block_offsets |-> AsUsize(off),
      dictionary_blocks |-> UnwrapOrDefault(md.dictionaries),
      record_blocks |-> md.blocks,
      state |-> "Started",
      dictionary_tracker |-> DictionaryTracker(dicts) ]

Construct ==
    /\ pc = "construct"
    /\ writer' = << FileWriter(metadata, options, offset, dictionaries) >>
    /\ tracker' = << writer'[1].dictionary_tracker >>
    /\ result' = OkResult
    /\ pc' = "done"
    /\ UNCHANGED << metadata, options, platform, cursor, ops, dictionaries, conv,
                    offset, insert_res, run, first >>

\* ------------------------------------- after resuming: the tracker's use

DictIds == { 7, 9 }
DictValues == { "a", "z" }

\* DictionaryTracker::insert on the resumed writer: a known id with other
\* values is a replacement, refused when cannot_replace is set.
TrackerInsert ==
    /\ pc = "done"
    /\ result.kind = "ok"
    /\ insert_res.kind = "none"
    /\ \E id \in DictIds, v \in DictValues :
         LET t == tracker[1] IN
         IF id \in DOMAIN t.dictionaries /\ t.dictionaries[id] = v
         THEN /\ insert_res' = [kind |-> "unchanged", id |-> id, values |-> v]
              /\ UNCHANGED tracker
         ELSE IF id \in DOMAIN t.dictionaries /\ t.cannot_replace
         THEN /\ insert_res' = [kind |-> "rejected", id |-> id, values |-> v]
              /\ UNCHANGED tracker
         ELSE /\ insert_res' = [kind |-> "inserted", id |-> id, values |-> v]
              /\ tracker' = << [t EXCEPT !.dictionaries = Put(t.dictionaries, id, v)] >>
    /\ UNCHANGED << metadata, options, platform, cursor, ops, pc, dictionaries, conv,
                    offset, result, writer, run, first >>

\* --------------------------- a second, independent call on the same file

Restart ==
    /\ pc = "done"
    /\ run = 1
    /\ insert_res.kind = "none"
    /\ first' = [result |-> result, writer |-> writer, start |-> start]
    /\ run' = 2
    /\ start' \in Cursors
    /\ cursor' = start'
    /\ ops' = <<>>
    /\ pc' = "check_endianess"
    /\ dictionaries' = <<>>
    /\ conv' = NoConv
    /\ offset' = 0
    /\ result' = NoResult
    /\ writer' = <<>>
    /\ tracker' = <<>>
    /\ UNCHANGED << metadata, options, native_le, overflow_checks, usize_bits,
                    insert_res >>

\* ------------------------------------------------------- specifications

Next ==
    \/ CheckEndianess
    \/ LoadDictionaries
    \/ LastBlock
    \/ ComputeOffset
    \/ Seek
    \/ Construct
    \/ TrackerInsert

Spec == Init /\ [][Next]_vars

NextTwice == Next \/ Restart

SpecTwice == Init /\ [][NextTwice]_vars

\* ------------------------------------------------------------ the claims

Done == pc = "done"
Succeeded == Done /\ result.kind = "ok"
Native == metadata.is_little_endian = native_le
HasDictionaries == Len(metadata.dictionaries) = 1
NoBlocks == Len(metadata.blocks) = 0
LastRecord == metadata.blocks[Len(metadata.blocks)]
HasOp(name) == \E i \in DOMAIN ops : ops[i].op = name
IsOutOfSpec(r) == r.kind = "err" /\ r.error = "OutOfSpec"
IsIo(r) == r.kind = "err" /\ r.error = "Io"

\* The last record block has a negative field.
NegativeLast ==
    /\ ~NoBlocks
    /\ \/ LastRecord.offset < 0
       \/ LastRecord.meta_data_length < 0
       \/ LastRecord.body_length < 0

\* The last record block's fields are non-negative and their sum leaves u64.
OverflowingLast ==
    /\ ~NoBlocks
    /\ ~NegativeLast
    /\ BlockEnd(LastRecord) >= U64Mod

\* Metadata of a well-formed file in the platform's byte order.
ValidInput == Native /\ ~NoBlocks /\ ~NegativeLast /\ ~OverflowingLast

\* The message of the first conversion that fails on the last record block.
NegativeFieldMsg ==
    IF LastRecord.offset < 0
    THEN "The block's offset must be a positive number"
    ELSE IF LastRecord.meta_data_length < 0
    THEN "The block's meta length must be a positive number"
    ELSE "The block's body length must be a positive number"

\* C1 as stated: with native byte order and a negative field in the last
\* record block, the call (no I/O operation having failed) fails with the
\* out-of-spec (MalformedFile) error and the dictionary loader was not
\* invoked before that failure.
C1_NegativeFieldBeforeDictionaryRead ==
    (Done /\ Native /\ NegativeLast /\ ~IsIo(result)) =>
        /\ IsOutOfSpec(result)
        /\ ~HasOp("read_dictionary")

\* C1 amended: with native byte order and a negative field in the last
\* record block the call returns no writer and issues no seek and no write.
\* Without dictionary blocks it touches the stream not at all and fails with
\* the out-of-spec error naming the first negative field; with dictionary
\* blocks the dictionaries are loaded first, and the call fails with that
\* out-of-spec error after every dictionary message was read, or with the
\* loader's I/O error when a read failed.
C1_NegativeFieldRejected ==
    (Done /\ Native /\ NegativeLast) =>
        /\ writer = <<>>
        /\ ~HasOp("seek")
        /\ ~HasOp("write")
        /\ IF HasDictionaries
           THEN \/ /\ result = Err("OutOfSpec", NegativeFieldMsg)
                   /\ ops = DictReads(metadata.dictionaries[1],
                                      Len(metadata.dictionaries[1]))
                \/ /\ result = Err("Io", "read_dictionaries")
                   /\ \E n \in 1..Len(metadata.dictionaries[1]) :
                          ops = DictReads(metadata.dictionaries[1], n)
           ELSE /\ ops = <<>>
                /\ result = Err("OutOfSpec", NegativeFieldMsg)

C1_Witness ==
    /\ Done /\ Native /\ NegativeLast /\ HasDictionaries
    /\ LastRecord.offset = -5
    /\ IsOutOfSpec(result)
    /\ Len(ops) = 2
    /\ ops[2].op = "read_dictionary"

\* C2 as stated: when the non-negative fields of the last record block sum
\* to more than u64 holds, the call (its dictionary load having succeeded)
\* returns the out-of-spec error, returns no writer and issues no seek.
C2_OverflowIsMalformedFile ==
    (Done /\ Native /\ OverflowingLast /\ result # Err("Io", "read_dictionaries")) =>
        /\ IsOutOfSpec(result)
        /\ writer = <<>>
        /\ ~HasOp("seek")

\* C3: when the metadata's byte order is not the platform's, the call ends
\* at its first step with the not-yet-implemented error, having issued no
\* operation on the stream (no seek, no dictionary read) and built no writer.
C3_ByteOrderRejected ==
    (~Native /\ pc # "check_endianess") =>
        /\ Done
        /\ result = Err("NotYetImplemented",
               "Appending to a file of a non-native endianess is still not supported")
        /\ ops = <<>>
        /\ cursor = start
        /\ writer = <<>>

C3_Witness ==
    /\ Done /\ ~Native
    /\ HasDictionaries /\ Len(metadata.dictionaries[1]) = 2
    /\ ~NoBlocks
    /\ result.error = "NotYetImplemented"

\* C4 as stated (on a target whose usize is as wide as u64): after every
\* successful call the writer's block_offsets and the stream's cursor both
\* equal offset + meta_data_length + body_length of the last record block.
C4_ResumeOffsetIsBlockEnd ==
    (Succeeded /\ usize_bits = W64) =>
        /\ writer[1].block_offsets = BlockEnd(LastRecord)
        /\ cursor = BlockEnd(LastRecord)

\* C5 as stated: with native byte order and an empty record-block list the
\* call fails with the out-of-spec error and issues no seek.
C5_EmptyBlocksMalformedFile ==
    (Done /\ Native /\ NoBlocks) =>
        /\ IsOutOfSpec(result)
        /\ ~HasOp("seek")

\* C5 amended: with native byte order and an empty record-block list the
\* call returns no writer and issues no seek; it fails with the out-of-spec
\* error "at least 1 message", unless dictionary blocks are present and
\* their load, which comes first, fails: then with that I/O error.
C5_EmptyBlocksRejected ==
    (Done /\ Native /\ NoBlocks) =>
        /\ writer = <<>>
        /\ ~HasOp("seek")
        /\ \/ result = Err("OutOfSpec",
                  "An Arrow IPC file must have at least 1 message (the schema message)")
           \/ HasDictionaries /\ result = Err("Io", "read_dictionaries")
        /\ IsOutOfSpec(result) =>
               ops = (IF HasDictionaries
                      THEN DictReads(metadata.dictionaries[1],
                                     Len(metadata.dictionaries[1]))
                      ELSE <<>>)

C5_Witness ==
    /\ Done /\ Native /\ NoBlocks
    /\ HasDictionaries /\ Len(metadata.dictionaries[1]) > 0
    /\ IsOutOfSpec(result)

\* C6 as stated: the call ends with a writer or with a classified error and
\* never with both; unsupported byte order, an empty block list, a negative
\* field and an overflowing sum each end it with an error and no writer; no
\* write is issued on the stream.
C6_AllOrNothing ==
    Done =>
        /\ result.kind \in { "ok", "err" }
        /\ result.kind = "err" => writer = <<>>
        /\ (~Native \/ NoBlocks \/ NegativeLast \/ OverflowingLast) =>
               result.kind = "err" /\ writer = <<>>
        /\ ~HasOp("write")

\* The ids of the dictionary messages at the given blocks.
IdsOf(blocks) == { DictionaryAt(blocks[i]).id : i \in DOMAIN blocks }

\* C7: after every successful call the writer's dictionary table is the
\* loader's table for the metadata's dictionary blocks (its ids are those of
\* the blocks, each with the values stored for it), or empty when there are
\* none; cannot_replace is set; and an insert that gives a loaded id other
\* values is refused and leaves the table as it was.
C7_DictionariesPreloaded ==
    Succeeded =>
        LET t == writer[1].dictionary_tracker
            loaded == IF HasDictionaries
                      THEN ReadDictionaries(metadata.dictionaries[1])
                      ELSE <<>>
        IN  /\ t.cannot_replace = TRUE
            /\ t.dictionaries = loaded
            /\ DOMAIN t.dictionaries =
                   (IF HasDictionaries THEN IdsOf(metadata.dictionaries[1]) ELSE {})
            /\ \A b \in DictBlockSet :
                   DictionaryAt(b).id \in DOMAIN t.dictionaries =>
                       t.dictionaries[DictionaryAt(b).id] = DictionaryAt(b).values
            /\ (/\ insert_res.kind # "none"
                /\ insert_res.id \in DOMAIN loaded
                /\ loaded[insert_res.id] # insert_res.values) =>
                   /\ insert_res.kind = "rejected"
                   /\ tracker[1].dictionaries = loaded

C7_Witness ==
    /\ Succeeded
    /\ DOMAIN writer[1].dictionary_tracker.dictionaries = { 7, 9 }
    /\ insert_res.kind = "rejected"

\* C8: after every successful call the writer holds the metadata's schema,
\* ipc fields, record blocks and dictionary blocks (the empty list when the
\* metadata has none) unchanged, the options it was given, and the state
\* Started.
C8_MetadataCarriedOver ==
    Succeeded =>
        /\ writer[1].schema = metadata.schema
        /\ writer[1].ipc_fields = metadata.ipc_fields
        /\ writer[1].options = options
        /\ writer[1].record_blocks = metadata.blocks
        /\ writer[1].dictionary_blocks =
               (IF HasDictionaries THEN metadata.dictionaries[1] ELSE <<>>)
        /\ writer[1].state = "Started"

C8_Witness ==
    /\ Succeeded
    /\ Len(writer[1].record_blocks) = 2
    /\ writer[1].record_blocks[1] # writer[1].record_blocks[2]
    /\ Len(writer[1].dictionary_blocks) = 2
    /\ writer[1].state = "Started"

\* C9: in every successful run the stream saw, in this order, the reads of
\* the dictionary load (one per dictionary block, none when the metadata has
\* no dictionary blocks) and then exactly one seek, the one to the computed
\* offset, and nothing else: no second seek and no write; and no seek is
\* issued before the dictionaries were loaded and the offset computed.
C9_LoadThenOneSeek ==
    /\ Succeeded =>
           /\ ops = (IF HasDictionaries
                     THEN DictReads(metadata.dictionaries[1],
                                    Len(metadata.dictionaries[1]))
                     ELSE <<>>) \o << StreamOp("seek", offset) >>
           /\ Cardinality({ i \in DOMAIN ops : ops[i].op = "seek" }) = 1
           /\ ~HasOp("write")
    /\ HasOp("seek") => pc \in { "construct", "done" }
    /\ pc \in { "check_endianess", "read_dictionaries" } => ops = <<>>

C9_Witness ==
    /\ Succeeded
    /\ HasDictionaries
    /\ Len(ops) = 3
    /\ ops[2].op = "read_dictionary"
    /\ ops[3].op = "seek"

====
